---- MODULE Spec2Model ----
(***************************************************************************)
(* A model of plugin.py, the FindInFiles add-on: the commands and the      *)
(* listeners of the plugin as operators on the state of the host editor    *)
(* (views with a text buffer, a selection and a viewport, one window, the  *)
(* callback queue of set_timeout, the queue of the async thread) and on    *)
(* the module-level dictionaries of the plugin.                            *)
(*                                                                         *)
(* A text is a sequence of one-character strings.  Points are 0-based as   *)
(* in the host: the character at point p of text t is t[p + 1].            *)
(*                                                                         *)
(* A value a definition uses more than once is a parameter of a second     *)
(* definition (named with a trailing _) rather than a LET.                 *)
(***************************************************************************)
EXTENDS Integers, Sequences, FiniteSets, TLC

\* ------------------------------------------------------------------ texts

NL == "\n"
Q == "\""
Digit == {"0", "1", "2", "3", "4", "5", "6", "7", "8", "9"}

Max(a, b) == IF a >= b THEN a ELSE b
Min(a, b) == IF a <= b THEN a ELSE b
MaxOf(S) == CHOOSE x \in S : \A y \in S : y <= x
MinOf(S) == CHOOSE x \in S : \A y \in S : x <= y

\* sublime.Region(a, b); a region keeps its direction (a > b when reversed).
Region(a, b) == [a |-> a, b |-> b]
NoRegion == Region(-1, -1)
begin(r) == Min(r.a, r.b)
end(r) == Max(r.a, r.b)
empty(r) == r.a = r.b

size(t) == Len(t)
Clamp(t, p) == Max(0, Min(p, Len(t)))
substr(t, r) == SubSeq(t, Clamp(t, begin(r)) + 1, Clamp(t, end(r)))

startswith(t, lit) == Len(lit) <= Len(t) /\ SubSeq(t, 1, Len(lit)) = lit
endswith(t, lit) ==
    Len(lit) <= Len(t) /\ SubSeq(t, Len(t) - Len(lit) + 1, Len(t)) = lit

\* The literal lit stands at point p of t.
IsAt(t, p, lit) ==
    /\ p >= 0
    /\ p + Len(lit) <= Len(t)
    /\ lit = <<>> \/ t[p + 1] = lit[1]
    /\ SubSeq(t, p + 1, p + Len(lit)) = lit

RECURSIVE line_start(_, _)
line_start(t, p) ==
    IF p <= 0 THEN 0 ELSE IF t[p] = NL THEN p ELSE line_start(t, p - 1)

RECURSIVE line_end(_, _)
line_end(t, p) ==
    IF p >= Len(t) THEN Len(t) ELSE IF t[p + 1] = NL THEN p ELSE line_end(t, p + 1)

\* view.line(pt): the line of pt without its newline.
line_(t, p) == Region(line_start(t, p), line_end(t, p))
line(t, p) == line_(t, Clamp(t, p))

\* view.full_line(pt): the line of pt with its newline.
full_line_(t, l) == Region(l.a, Min(l.b + 1, Len(t)))
full_line(t, p) == full_line_(t, line(t, p))

\* view.rowcol(pt)
row_of(t, p) == Cardinality({q \in 1..Clamp(t, p) : t[q] = NL})
col_(t, p) == p - line_start(t, p)
col_of(t, p) == col_(t, Clamp(t, p))

\* The points at which a line starts.
LineStarts(t) == {0} \cup {q \in 1..Len(t) : t[q] = NL}

\* view.text_point(row, col): the column is not clamped to the row.
row_start_(t, S) == IF S = {} THEN Len(t) ELSE CHOOSE q \in S : TRUE
row_start(t, row) == row_start_(t, {q \in LineStarts(t) : row_of(t, q) = row})
text_point(t, row, col) == Min(row_start(t, row) + col, Len(t))

\* A set of numbers as the ascending sequence of its elements.
RECURSIVE Sorted(_)
Sorted(S) ==
    IF S = {} THEN <<>> ELSE <<MinOf(S)>> \o Sorted(S \ {MinOf(S)})

\* The number of digits that stand at point p.
RECURSIVE digits_at(_, _)
digits_at(t, p) ==
    IF p < Len(t) /\ t[p + 1] \in Digit THEN 1 + digits_at(t, p + 1) ELSE 0

RECURSIVE spaces_at(_, _)
spaces_at(t, p) ==
    IF p < Len(t) /\ t[p + 1] = " " THEN 1 + spaces_at(t, p + 1) ELSE 0

Searching_ == <<"S","e","a","r","c","h","i","n","g"," ">>
_files == <<" ","f","i","l","e","s">>
_match == <<" ","m","a","t","c","h">>
CommaSpace == <<","," ">>

\* The end of a match of  Searching \d+ files  that starts at p, or -1; q
\* is the point behind the digits.
searching_at_(t, p, q) ==
    IF IsAt(t, p, Searching_) /\ q > p + Len(Searching_) /\ IsAt(t, q, _files)
    THEN q + Len(_files) ELSE -1
searching_at(t, p) ==
    searching_at_(t, p, p + Len(Searching_) + digits_at(t, p + Len(Searching_)))

\* view.find_all(r"^Searching \d+ files"): the starts of the matches.
search_starts(t) == {p \in LineStarts(t) : searching_at(t, p) >= 0}

\* view.find_all(r"^Searching \d+ files")[-1], or NoRegion for IndexError.
\* A variant that takes the top of the view instead of raising IndexError,
\* as read_position does.
last_search_start_or_top_(t, S) ==
    IF S = {} THEN Region(0, 0) ELSE Region(MaxOf(S), searching_at(t, MaxOf(S)))
last_search_start_(t, S) ==
    IF S = {} THEN NoRegion ELSE Region(MaxOf(S), searching_at(t, MaxOf(S)))
last_search_start(t) == last_search_start_(t, search_starts(t))

\* SEARCH_SUMMARY_RE.search(text) is not None, for  \d+ match(es)? .*
SEARCH_SUMMARY_RE(text) ==
    \E i \in 1..Len(text) :
        /\ text[i] \in Digit
        /\ IsAt(text, i, _match)
        /\ \/ IsAt(text, i + Len(_match), <<" ">>)
           \/ IsAt(text, i + Len(_match), <<"e","s"," ">>)

\* SEARCH_HEADER_RE.match(text) is not None, for  ^Searching \d+ files .*
SEARCH_HEADER_RE_(text, e) == e >= 0 /\ IsAt(text, e, <<" ">>)
SEARCH_HEADER_RE(text) == SEARCH_HEADER_RE_(text, searching_at(text, 0))

\* ------------------------------------------- the syntax of a results view

\* The token of scope constant.numeric.line-number. of the line l (the line
\* number of a result line or a context line), or NoRegion; s is the point
\* behind the indentation and e the point behind the digits.
line_number_token_(t, l, s, e) ==
    IF s > l.a /\ e > s /\ (IsAt(t, e, <<":">>) \/ IsAt(t, e, <<" ">>))
    THEN Region(s, e) ELSE NoRegion
line_number_indent_(t, l, s) == line_number_token_(t, l, s, s + digits_at(t, s))
line_number_token(t, l) == line_number_indent_(t, l, l.a + spaces_at(t, l.a))

column_offset_at_(l, tok) ==
    IF tok # NoRegion THEN tok.b + 2 - l.a  \* 2 spaces or `: `
    ELSE 0
column_offset_of_(t, l) == column_offset_at_(l, line_number_token(t, l))
column_offset_at(t, pt) == column_offset_of_(t, line(t, pt))

\* view.find_by_selector("entity.name.filename.find-in-files"): a line that
\* does not start with a space and ends with a colon names a file.
is_filename_(t, p, e) ==
    e > p /\ t[p + 1] # " " /\ t[e] = ":" /\ searching_at(t, p) < 0
filename_starts(t) == {p \in LineStarts(t) : is_filename_(t, p, line_end(t, p))}

filename_regions_(t, s) == [i \in 1..Len(s) |-> Region(s[i], line_end(t, s[i]) - 1)]
filename_regions(t) == filename_regions_(t, Sorted(filename_starts(t)))

\* The text every search of the model looks for.
MatchChar == "x"

\* view.get_regions("match"): the host marks every occurrence of the
\* pattern in the text of a result line (line number and colon).
is_match_(t, p, tok) == tok # NoRegion /\ IsAt(t, tok.b, <<":">>) /\ p >= tok.b + 2
match_starts(t) ==
    {p \in 0..(Len(t) - 1) :
        t[p + 1] = MatchChar /\ is_match_(t, p, line_number_token(t, line(t, p)))}

match_regions_(s) == [i \in 1..Len(s) |-> Region(s[i], s[i] + 1)]
match_regions(t) == match_regions_(Sorted(match_starts(t)))

\* reversed(list)
reversed(l) == [i \in 1..Len(l) |-> l[Len(l) + 1 - i]]

\* --------------------------------------------------- the search headline

\* SEARCH_INFO_RE.search(s) for  (?:"(?P<pattern>.+)")(?: \((?P<flags>.+)\))?
\* The match starts at the first quote i0; the greedy pattern group runs to
\* the last quote j0, and the optional flags group must start right behind
\* it and runs to the last closing parenthesis, the last of ps.
SEARCH_INFO_flags_(s, j0, ps) ==
    IF IsAt(s, j0, <<" ", "(">>) /\ ps # {} THEN SubSeq(s, j0 + 3, MaxOf(ps) - 1)
    ELSE <<>>
SEARCH_INFO_groups_(s, i0, j0) ==
    IF j0 < i0 + 2 THEN [matched |-> FALSE]
    ELSE [matched |-> TRUE,
          pattern |-> SubSeq(s, i0 + 1, j0 - 1),
          flags |-> SEARCH_INFO_flags_(s, j0, {k \in (j0 + 4)..Len(s) : s[k] = ")"})]
SEARCH_INFO_quotes_(s, qs) ==
    IF qs = {} THEN [matched |-> FALSE]
    ELSE SEARCH_INFO_groups_(s, MinOf(qs), MaxOf(qs))
SEARCH_INFO_RE(s) == SEARCH_INFO_quotes_(s, {i \in 1..Len(s) : s[i] = Q})

\* flags.split(", ")
RECURSIVE split(_)
split_(s, I) ==
    IF I = {} THEN <<s>>
    ELSE <<SubSeq(s, 1, MinOf(I))>> \o split(SubSeq(s, MinOf(I) + 3, Len(s)))
split(s) == split_(s, {i \in 0..(Len(s) - 2) : IsAt(s, i, CommaSpace)})

F_regex == <<"r","e","g","e","x">>
F_case_sensitive == <<"c","a","s","e"," ","s","e","n","s","i","t","i","v","e">>
F_whole_word == <<"w","h","o","l","e"," ","w","o","r","d">>

translate_flag(user_friendly_flag) ==
    CASE user_friendly_flag = F_regex -> "regex"
      [] user_friendly_flag = F_case_sensitive -> "case_sensitive"
      [] user_friendly_flag = F_whole_word -> "whole_word"
      [] OTHER -> "KeyError"

\* The characters re.escape puts a backslash before.
Special == {"(", ")", "[", "]", "{", "}", "?", "*", "+", "-", "|", "^", "$",
            "\\", ".", "&", "~", "#", " ", "\t", "\n", "\r"}

RECURSIVE re_escape(_)
re_escape(s) ==
    IF s = <<>> THEN <<>>
    ELSE (IF Head(s) \in Special THEN <<"\\", Head(s)>> ELSE <<Head(s)>>)
         \o re_escape(Tail(s))

\* re.sub(r"\\(.)", r"\1", s)
RECURSIVE re_unescape(_)
re_unescape(s) ==
    IF s = <<>> THEN <<>>
    ELSE IF Head(s) = "\\" /\ Len(s) >= 2 /\ s[2] # NL
         THEN <<s[2]>> \o re_unescape(SubSeq(s, 3, Len(s)))
         ELSE <<Head(s)>> \o re_unescape(Tail(s))

\* ------------------------------------------------------------ the state

VARIABLES
    open,                     \* the views that are open
    buffer,                   \* view -> text
    sel,                      \* view -> view.sel(), a sequence of regions
    viewport,                 \* view -> the row at the top of the viewport
    change_count,             \* view -> view.change_count()
    loading,                  \* view -> view.is_loading()
    tabs,                     \* window.views(): the tabs of the window, in order
    active,                   \* the view that has the focus, or "none"
    selected,                 \* window.selected_sheets_in_group(group)
    semi,                     \* the semi-transient sheets
    cmds,                     \* what the last handler asked of the host
    context_lines,            \* preference find_in_files_context_lines
    side_by_side,             \* preference find_in_files_side_by_side
    current_context,          \* view setting fif_addon_current_context
    job,                      \* the search the host is rendering
    jobs,                     \* the number of searches started
    finished,                 \* the searches whose summary line is rendered
    previous_views,           \* fif_addon_listener.previous_views
    change_counts_by_window,  \* fif_addon_listener.change_counts_by_window
    handle_modified_events,   \* fif_addon_listener.handle_modified_events
    _on_loaded,               \* view -> callbacks
    _on_search_finished,      \* view -> callbacks
    _pending_first_result,    \* a set of views
    prev_loc,                 \* fif_addon_goto.prev_loc
    timeouts,                 \* the callbacks of sublime.set_timeout, in order
    async,                    \* the events waiting for the async thread
    apc,                      \* the handler the async thread is in, and where
    op                        \* the last step taken

vars == <<open, buffer, sel, viewport, change_count, loading, tabs, active,
          selected, semi, cmds, context_lines, side_by_side, current_context,
          job, jobs, finished, previous_views, change_counts_by_window,
          handle_modified_events, _on_loaded, _on_search_finished,
          _pending_first_result, prev_loc, timeouts, async, apc, op>>

\* The state the handlers work on, as one record.
St ==
    [open |-> open, buffer |-> buffer, sel |-> sel, viewport |-> viewport,
     change_count |-> change_count, loading |-> loading, tabs |-> tabs,
     active |-> active, selected |-> selected, semi |-> semi, cmds |-> cmds,
     context_lines |-> context_lines, side_by_side |-> side_by_side,
     current_context |-> current_context, job |-> job, jobs |-> jobs,
     finished |-> finished, previous_views |-> previous_views,
     change_counts_by_window |-> change_counts_by_window,
     handle_modified_events |-> handle_modified_events,
     _on_loaded |-> _on_loaded, _on_search_finished |-> _on_search_finished,
     _pending_first_result |-> _pending_first_result, prev_loc |-> prev_loc,
     timeouts |-> timeouts]

\* The next state is the record S.
Become(S) ==
    /\ open' = S.open
    /\ buffer' = S.buffer
    /\ sel' = S.sel
    /\ viewport' = S.viewport
    /\ change_count' = S.change_count
    /\ loading' = S.loading
    /\ tabs' = S.tabs
    /\ active' = S.active
    /\ selected' = S.selected
    /\ semi' = S.semi
    /\ cmds' = S.cmds
    /\ context_lines' = S.context_lines
    /\ side_by_side' = S.side_by_side
    /\ current_context' = S.current_context
    /\ job' = S.job
    /\ jobs' = S.jobs
    /\ finished' = S.finished
    /\ previous_views' = S.previous_views
    /\ change_counts_by_window' = S.change_counts_by_window
    /\ handle_modified_events' = S.handle_modified_events
    /\ _on_loaded' = S._on_loaded
    /\ _on_search_finished' = S._on_search_finished
    /\ _pending_first_result' = S._pending_first_result
    /\ prev_loc' = S.prev_loc
    /\ timeouts' = S.timeouts

\* The views: the find-in-files results view and two views of files.
RESULTS == "r"
Views == {"r", "f1", "f2"}
\* The only window.
WINDOW == "w"
None == "None"

\* view.match_selector(0, "text.find-in-files")
is_applicable(S, v) == v = RESULTS /\ v \in S.open

\* view in window.views()
is_result_buffer(S, v) == \E i \in DOMAIN S.tabs : S.tabs[i] = v

\* What a handler asks of the host is logged.
log(S, cmd, args) == [S EXCEPT !.cmds = Append(@, [cmd |-> cmd, args |-> args])]

set_sel(S, v, selection) == [S EXCEPT !.sel[v] = selection]

\* sublime.set_timeout(fn), fn a call and the view it is bound to.
set_timeout(S, fn) == [S EXCEPT !.timeouts = Append(@, fn)]

\* view.text_to_layout(cursor)[1] - view.viewport_position()[1], in rows
y_offset(S, v, cursor) == row_of(S.buffer[v], cursor) - S.viewport[v]

apply_offset(S, v, cursor, offset) ==
    [S EXCEPT !.viewport[v] = row_of(S.buffer[v], cursor) - offset]

\* view.show(r, True): the host scrolls to the row of r.
show(S, v, r) == [S EXCEPT !.viewport[v] = row_of(S.buffer[v], begin(r))]

caret(S, v) == S.sel[v][1].b

preview_is_open(S, v) ==
    /\ v \in S.open
    /\ Cardinality(S.selected) = 2
    /\ v \in S.selected

\* view.run_command(cmd, args), and the host calling a callback it was
\* given: call(S, v, fn, args) is the state after fn has run in the view v.
RECURSIVE call(_, _, _, _)
run_command(S, v, cmd, args) == call(S, v, cmd, args)

NoArgs == <<>>

\* ------------------------------------------------- extract_goto_positions

\* int(s.strip(" :")): the number, or ValueError.
ValueError == -1

RECURSIVE strip(_)
strip(s) ==
    IF s # <<>> /\ Head(s) \in {" ", ":"} THEN strip(Tail(s))
    ELSE IF s # <<>> /\ s[Len(s)] \in {" ", ":"} THEN strip(SubSeq(s, 1, Len(s) - 1))
    ELSE s

DigitValue(c) ==
    CASE c = "0" -> 0 [] c = "1" -> 1 [] c = "2" -> 2 [] c = "3" -> 3
      [] c = "4" -> 4 [] c = "5" -> 5 [] c = "6" -> 6 [] c = "7" -> 7
      [] c = "8" -> 8 [] c = "9" -> 9

RECURSIVE decimal(_)
decimal(s) ==
    IF s = <<>> THEN 0
    ELSE 10 * decimal(SubSeq(s, 1, Len(s) - 1)) + DigitValue(s[Len(s)])

int(s) ==
    IF s # <<>> /\ \A i \in DOMAIN s : s[i] \in Digit THEN decimal(s)
    ELSE ValueError

\* A list of goto positions, or the exception that ended the computation.
Positions(list) == [raised |-> FALSE, list |-> list]
Raised == [raised |-> TRUE, list |-> <<>>]
plus(r1, r2) ==
    IF r1.raised \/ r2.raised THEN Raised ELSE Positions(r1.list \o r2.list)

_is_in_code_block(t, pt) == startswith(substr(t, line(t, pt)), <<" ">>)

\* The lines  ^\S.*\n | ^\s+\.\..*\n | ^\n  that separate the code blocks.
is_separator_(t, p, e) ==
    e < Len(t) /\ (e = p \/ t[p + 1] # " " \/ IsAt(t, p + spaces_at(t, p), <<".", ".">>))
separator_starts(t) == {p \in LineStarts(t) : is_separator_(t, p, line_end(t, p))}

\* B holds the ends of the separators before pt, A the starts of those
\* from pt on.
_get_code_block_bounds_(pt, B, A) ==
    Region(IF B = {} THEN pt ELSE MaxOf(B), IF A = {} THEN pt ELSE MinOf(A))
_get_code_block_bounds(t, pt) ==
    _get_code_block_bounds_(
        pt,
        {e \in {line_end(t, p) + 1 : p \in separator_starts(t)} : e <= pt},
        {p \in separator_starts(t) : p >= pt})

contains(outer, r) == begin(outer) <= begin(r) /\ end(r) <= end(outer)

_is_selection_within_code_block(t, region) ==
    IF ~_is_in_code_block(t, begin(region)) THEN FALSE
    ELSE IF row_of(t, end(region)) = row_of(t, begin(region)) THEN TRUE
    ELSE contains(_get_code_block_bounds(t, begin(region)), region)

\* The first filename region that holds both ends of region, or NoRegion.
first_region_(filenames, I) == IF I = {} THEN NoRegion ELSE filenames[MinOf(I)]
_is_selection_within_filename(region, filenames) ==
    first_region_(filenames,
                  {i \in DOMAIN filenames :
                      /\ filenames[i].a <= region.a /\ region.a <= filenames[i].b
                      /\ filenames[i].a <= region.b /\ region.b <= filenames[i].b})

\* The name of the last file at or before pt, or the empty text for None.
last_name_(t, filenames, I) == IF I = {} THEN <<>> ELSE substr(t, filenames[MaxOf(I)])
_find_containing_file(t, pt, filenames) ==
    last_name_(t, filenames, {i \in DOMAIN filenames : filenames[i].a <= pt})

\* GotoDefinition(filename, (start_row - 1, start_col), (end_row - 1, end_col))
GotoDefinition_(file, start_row, start_col, end_row, end_col) ==
    IF start_row = ValueError \/ end_row = ValueError THEN Raised
    ELSE Positions(<<[filename |-> file,
                      start |-> <<start_row - 1, start_col>>,
                      end |-> <<end_row - 1, end_col>>]>>)

\* int(line_[:col_offset].strip(" :"))
row_number_(t, l, col_offset) == int(strip(SubSeq(substr(t, l), 1, col_offset)))

position_in_lines_(t, region, file, col_offset, start_line, end_line) ==
    GotoDefinition_(file,
                    row_number_(t, start_line, col_offset),
                    Max(0, region.a - start_line.a - col_offset),
                    row_number_(t, end_line, col_offset),
                    Max(0, region.b - end_line.a - col_offset))

position_in_file_(t, region, file) ==
    position_in_lines_(t, region, file, column_offset_at(t, region.a),
                       line(t, region.a),
                       line(t, IF empty(region) THEN region.a ELSE region.b))

position_if_file_(t, region, file) ==
    IF file = <<>> THEN Positions(<<>>) ELSE position_in_file_(t, region, file)

\* filename is [name |-> the name of the file] or [list |-> the filename
\* regions]; `not filename` holds of None and of the empty name.
_extract_position_from_region(t, region, filename) ==
    IF "list" \in DOMAIN filename
    THEN position_if_file_(t, region, _find_containing_file(t, region.a, filename.list))
    ELSE position_in_file_(t, region, filename.name)

\* I holds the indices of the matches behind the start of the filename.
first_match_position_(t, file_region, matches, I) ==
    IF I = {} THEN Positions(<<>>)
    ELSE _extract_position_from_region(t, matches[MinOf(I)],
                                       [name |-> substr(t, file_region)])
_handle_filename_selection(t, region, file_region, matches) ==
    first_match_position_(t, file_region, matches,
                          {i \in DOMAIN matches : matches[i].a > file_region.a})

RECURSIVE positions_of_matches(_, _, _, _, _)
positions_of_matches(t, matches, filenames, selection, i) ==
    IF i > Len(matches) THEN Positions(<<>>)
    ELSE plus(IF selection.a <= matches[i].a /\ matches[i].a <= selection.b
              THEN _extract_position_from_region(t, matches[i], [list |-> filenames])
              ELSE Positions(<<>>),
              positions_of_matches(t, matches, filenames, selection, i + 1))

\* The code block of pt when pt is in one, else the region itself.
expanded_(t, region, pt) ==
    IF _is_in_code_block(t, pt) THEN _get_code_block_bounds(t, pt) ELSE region

_handle_free_form_selection(t, region, filenames, matches) ==
    positions_of_matches(
        t, matches, filenames,
        Region(begin(expanded_(t, region, begin(region))),
               end(expanded_(t, region, end(region)))),
        1)

positions_of_region_(t, region, matches, filenames, file_region) ==
    IF _is_selection_within_code_block(t, region)
    THEN _extract_position_from_region(t, region, [list |-> filenames])
    ELSE IF file_region # NoRegion /\ ~empty(file_region)
    THEN _handle_filename_selection(t, region, file_region, matches)
    ELSE _handle_free_form_selection(t, region, filenames, matches)

RECURSIVE positions_of_selection(_, _, _, _, _)
positions_of_selection(t, frozen_sel, matches, filenames, i) ==
    IF i > Len(frozen_sel) THEN Positions(<<>>)
    ELSE plus(positions_of_region_(
                  t, frozen_sel[i], matches, filenames,
                  _is_selection_within_filename(frozen_sel[i], filenames)),
              positions_of_selection(t, frozen_sel, matches, filenames, i + 1))

extract_goto_positions(t, frozen_sel) ==
    positions_of_selection(t, frozen_sel, match_regions(t), filename_regions(t), 1)

\* ------------------------------------------------------------ navigation

\* A dictionary is a function on its keys.
Put(d, k, val) == [x \in (DOMAIN d) \cup {k} |-> IF x = k THEN val ELSE d[x]]
Pop(d, k) == [x \in (DOMAIN d) \ {k} |-> d[x]]
Get(d, k, default) == IF k \in DOMAIN d THEN d[k] ELSE default
EmptyDict == [x \in {} |-> x]

\* The text of the files the host opens.
FileText == <<"y", " ", "x", "\n", "y", "\n">>

\* The view the host shows the file of this name in.
FileView(name) == IF name = <<"/", "b">> THEN "f2" ELSE "f1"

\* The host has a view f for the file: a view it opens is still loading.
opened_(S, f) ==
    IF f \in S.open THEN S
    ELSE [S EXCEPT !.open = @ \cup {f},
                   !.loading[f] = TRUE,
                   !.buffer[f] = FileText,
                   !.sel[f] = <<Region(0, 0)>>,
                   !.viewport[f] = 0]

shown_(S, f, mode) ==
    CASE mode = "in_tab" ->
           [S EXCEPT !.tabs = IF is_result_buffer(S, f) THEN @ ELSE Append(@, f),
                     !.semi = @ \ {f},
                     !.selected = {f},
                     !.active = f]
      [] mode = "side_by_side" ->
           [S EXCEPT !.semi = @ \cup {f},
                     !.selected = (@ \cap {S.active}) \cup {f},
                     !.active = f]
      [] mode = "transient" ->
           [S EXCEPT !.semi = @ \cup {f}, !.active = f]

\* window.open_file(selected.goto, flags, group=-1); mode names the flags.
open_file(S, goto, mode) ==
    shown_(opened_(log(S, "open_file", [goto |-> goto, mode |-> mode]),
                   FileView(goto.filename)),
           FileView(goto.filename), mode)

focus_view(S, v) == [log(S, "focus_view", [view |-> v]) EXCEPT !.active = v]

\* view.close() of a view that is not a results view.
close(S, o) ==
    [S EXCEPT !.open = @ \ {o},
              !.tabs = SelectSeq(@, LAMBDA x : x # o),
              !.selected = @ \ {o},
              !.semi = @ \ {o},
              !.loading[o] = FALSE,
              !.active = IF @ = o THEN "none" ELSE @]

RECURSIVE close_all(_, _)
close_one_(S, others, o) == close_all(close(S, o), others \ {o})
close_all(S, others) ==
    IF others = {} THEN S ELSE close_one_(S, others, CHOOSE x \in others : TRUE)

close_preview(S, v) ==
    IF v \notin S.open THEN S
    ELSE [log(close_all(S, {o \in S.selected : o # v /\ o \in S.semi}),
              "unselect_others", [view |-> v])
          EXCEPT !.selected = @ \cap {v}]

\* carry_selection_to_view(view): the continuation fif_addon_goto builds.
carry_selection_to_view(S, view_, kont) ==
    set_timeout(S, [call |-> [fn |-> "fif_addon_set_selection",
                              start |-> kont.start, end |-> kont.end],
                    view |-> view_])

when_loaded(S, view_, kont) ==
    IF S.loading[view_]
    THEN [S EXCEPT !._on_loaded = Put(@, view_, Append(Get(@, view_, <<>>), kont))]
    ELSE carry_selection_to_view(S, view_, kont)

\* The file of the goto position is opened as the state of the window and
\* the argument preview ("False", "True" or "toggle") say.
goto_open_(S, v, preview, selected_) ==
    IF ~is_result_buffer(S, v)
    THEN focus_view(open_file(S, selected_, "transient"), v)
    ELSE IF preview # "False"
    THEN focus_view(open_file(S, selected_, "side_by_side"), v)
    ELSE IF S.side_by_side
    THEN open_file(S, selected_, "side_by_side")
    ELSE open_file(IF preview_is_open(S, v) THEN close_preview(S, v) ELSE S,
                   selected_, "in_tab")

goto_selected_(S, v, preview, selected_) ==
    when_loaded(goto_open_(S, v, preview, selected_),
                FileView(selected_.filename),
                [fn |-> "carry_selection_to_view",
                 start |-> selected_.start, end |-> selected_.end])

goto_positions_(S, v, preview, goto_positions) ==
    IF goto_positions.raised THEN log(S, "raise", [error |-> "ValueError"])
    ELSE IF goto_positions.list = <<>> THEN S
    ELSE goto_selected_(S, v, preview, goto_positions.list[1])

goto_loc_(S, v, preview, this_loc) ==
    IF preview = "toggle" /\ preview_is_open(S, v) /\ S.prev_loc[v] = this_loc
    THEN close_preview([S EXCEPT !.prev_loc[v] = this_loc], v)
    ELSE goto_positions_([S EXCEPT !.prev_loc[v] = this_loc], v, preview,
                         extract_goto_positions(S.buffer[v], S.sel[v]))

fif_addon_goto(S, v, preview) ==
    goto_loc_(S, v, preview,
              <<substr(S.buffer[v], line(S.buffer[v], caret(S, v))),
                row_of(S.buffer[v], caret(S, v))>>)

fif_addon_set_selection_(S, v, r) == show(set_sel(S, v, <<r>>), v, r)
fif_addon_set_selection(S, v, start, end_) ==
    fif_addon_set_selection_(
        S, v, Region(text_point(S.buffer[v], start[1], start[2]),
                     text_point(S.buffer[v], end_[1], end_[2])))

\* The match is selected and shown, and previewed when a preview is open.
previewed_(S, v) ==
    IF preview_is_open(S, v)
    THEN run_command(S, v, "fif_addon_goto", [preview |-> "True"])
    ELSE S
match_selected_(S, v, r) ==
    IF r = NoRegion THEN S ELSE previewed_(show(set_sel(S, v, <<r>>), v, r), v)

\* The first match that begins behind the caret, else the first one behind
\* the start of the last search; NoRegion when there is neither.
after_(regions, c) == {i \in DOMAIN regions : begin(regions[i]) > c}
\* A variant that starts over at the first match of the view.
first_of_buffer_(regions, I1, I2) ==
    IF I1 # {} THEN regions[MinOf(I1)]
    ELSE IF regions # <<>> THEN regions[1]
    ELSE NoRegion
first_of_(regions, I1, I2) ==
    IF I1 # {} THEN regions[MinOf(I1)]
    ELSE IF I2 # {} THEN regions[MinOf(I2)]
    ELSE NoRegion
next_match_target_(regions, c, lss) ==
    first_of_(regions, after_(regions, c),
              IF lss = NoRegion THEN {} ELSE after_(regions, lss.a))
next_match_target(t, selection) ==
    next_match_target_(match_regions(t), selection[1].b, last_search_start(t))

fif_addon_next_match(S, v) ==
    match_selected_(S, v, next_match_target(S.buffer[v], S.sel[v]))

\* The last match that ends before the caret, else the last one of the buffer.
before_(regions, c) == {i \in DOMAIN regions : end(regions[i]) < c}
last_of_(regions, I1, I2) ==
    IF I1 # {} THEN regions[MaxOf(I1)]
    ELSE IF I2 # {} THEN regions[MaxOf(I2)]
    ELSE NoRegion
prev_match_target_(regions, c, n) ==
    last_of_(regions, before_(regions, c), before_(regions, n))
prev_match_target(t, selection) ==
    prev_match_target_(match_regions(t), selection[1].b, size(t))

fif_addon_prev_match(S, v) ==
    match_selected_(S, v, prev_match_target(S.buffer[v], S.sel[v]))

\* ------------------------------------------- modifications and listeners

\* Where the point p is after the text of the region r became n characters.
moved(p, r, n) ==
    IF p <= begin(r) THEN p
    ELSE IF p >= end(r) THEN p - (end(r) - begin(r)) + n
    ELSE begin(r)

\* for fn in fns: sublime.set_timeout(partial(fn, view))
scheduled_(S, v, fns) ==
    [S EXCEPT !.timeouts = @ \o [i \in DOMAIN fns |-> [call |-> fns[i], view |-> v]]]

\* A variant that reads the callbacks and leaves them in the dictionary.
run_handlers_keeping_(S, v, storage) ==
    IF storage = "_on_loaded"
    THEN scheduled_(S, v, Get(S._on_loaded, v, <<>>))
    ELSE scheduled_(S, v, Get(S._on_search_finished, v, <<>>))

\* run_handlers(view, storage), storage the name of the dictionary.
run_handlers(S, v, storage) ==
    IF storage = "_on_loaded"
    THEN IF v \notin DOMAIN S._on_loaded THEN S
         ELSE scheduled_([S EXCEPT !._on_loaded = Pop(@, v)], v, S._on_loaded[v])
    ELSE IF v \notin DOMAIN S._on_search_finished THEN S
         ELSE scheduled_([S EXCEPT !._on_search_finished = Pop(@, v)], v,
                         S._on_search_finished[v])

\* fif_addon_replace_text, run by replace_view_content(view, text, region)
replace_view_content(S, v, text, region) ==
    run_command(S, v, "fif_addon_replace_text", [text |-> text, region |-> region])

\* view.find(r"^Searching \d+ files .*", view.size(), REVERSE), or NoRegion
last_headline_(t, hs) ==
    IF hs = {} THEN NoRegion ELSE Region(MaxOf(hs), line_end(t, MaxOf(hs)))
last_headline(t) ==
    last_headline_(t, {p \in search_starts(t) : IsAt(t, searching_at(t, p), <<" ">>)})

\* Without a headline the host is asked to replace a region that is not in
\* the buffer, which changes nothing.
update_searching_headline_(S, v, text, last) ==
    IF last = NoRegion THEN S
    ELSE IF endswith(substr(S.buffer[v], last), text) THEN S
    ELSE replace_view_content(S, v, CommaSpace \o text, Region(last.b, last.b))
update_searching_headline(S, v, text) ==
    IF startswith(text, <<"0">>) THEN S
    ELSE update_searching_headline_(S, v, text, last_headline(S.buffer[v]))

\* on_modified from its line 572 on: text is the last line of the view.
search_finished_(S, v, text) ==
    IF ~SEARCH_SUMMARY_RE(text) THEN S
    ELSE [run_handlers(update_searching_headline(S, v, text), v,
                       "_on_search_finished")
          EXCEPT !._pending_first_result = @ \ {v}]
last_line_(S, v) ==
    search_finished_(S, v, substr(S.buffer[v],
                                  line(S.buffer[v], size(S.buffer[v]) - 1)))

\* on_modified up to its line 570: text is the line of the caret.
first_result_(S, v, caret_, text) ==
    IF size(S.buffer[v]) - caret_ \in {0, 1}
    THEN [S EXCEPT !._pending_first_result = @ \cup {v}]
    ELSE IF /\ v \in S._pending_first_result
            /\ text # <<>>
            /\ SEARCH_HEADER_RE(text)
            /\ \E p \in match_starts(S.buffer[v]) : p > caret_
    THEN [(IF caret_ = 0
           THEN set_timeout(S, [call |-> [fn |-> "fif_addon_next_match"],
                                view |-> v])
           ELSE run_command(S, v, "fif_addon_next_match", NoArgs))
          EXCEPT !._pending_first_result = @ \ {v}]
    ELSE S
caret_line_(S, v, caret_) ==
    first_result_(S, v, caret_, substr(S.buffer[v], line(S.buffer[v], caret_)))

\* fif_addon_wait_for_search_to_be_done_listener.on_modified
on_modified(S, v) ==
    IF ~is_applicable(S, v) THEN S
    ELSE last_line_(caret_line_(S, v, S.sel[v][1].a), v)

\* view.replace(edit, region, text): the host changes the buffer and calls
\* the on_modified listeners before it returns.
replaced_(S, v, r, text) ==
    [S EXCEPT
       !.buffer[v] = SubSeq(@, 1, begin(r)) \o text \o SubSeq(@, end(r) + 1, Len(@)),
       !.sel[v] = [i \in DOMAIN @ |-> Region(moved(@[i].a, r, Len(text)),
                                             moved(@[i].b, r, Len(text)))],
       !.change_count[v] = @ + 1]
replace(S, v, r, text) ==
    IF empty(r) /\ text = <<>> THEN S ELSE on_modified(replaced_(S, v, r, text), v)

fif_addon_replace_text(S, v, text, region) == replace(S, v, region, text)

\* on_search_finished(view, fn); the number of the search started last is
\* kept with fn.
on_search_finished(S, v, fn) ==
    [S EXCEPT !._on_search_finished =
        Put(@, v, Append(Get(@, v, <<>>), Put(fn, "job", S.jobs)))]

\* The host's right_delete: the character behind the caret is deleted.
right_delete_(S, v, c) ==
    IF c < size(S.buffer[v]) THEN replace(S, v, Region(c, c + 1), <<>>) ELSE S
right_delete(S, v) == right_delete_(S, v, S.sel[v][1].b)

fix_leading_newlines(S, v) ==
    run_command(run_command(set_sel(S, v, <<Region(0, 0)>>), v, "right_delete", NoArgs),
                v, "right_delete", NoArgs)

UpToDate == "Search result already up-to-date."

\* The text from the end of the headline of the last search to the end.
this_result_(t, lss) == substr(t, Region(line(t, lss.a).b, size(t)))

check_if_result_changed_(S, v, previous_result, lss) ==
    IF lss = NoRegion THEN S
    ELSE IF this_result_(S.buffer[v], lss) = previous_result
    THEN log(S, "status_message", [text |-> UpToDate])
    ELSE S
check_if_result_changed(S, v, previous_result) ==
    IF v \notin S.open THEN S
    ELSE check_if_result_changed_(S, v, previous_result,
                                  last_search_start(S.buffer[v]))

full_line_content_at(t, pt) == substr(t, full_line(t, pt))

\* line.strip() is empty
blank(s) == \A i \in DOMAIN s : s[i] \in {" ", "\n", "\t", "\r"}

\* list(filter_(candidates))
filter_(l) == SelectSeq(l, LAMBDA x : x # <<>>)

\* SubSeq from the (0-based) offset to the end: s[offset:]
from(s, offset) == SubSeq(s, offset + 1, Len(s))

\* The line and, when it has a line number, its text behind the number.
candidates_of_line_(full_line__, offset) ==
    IF offset # 0 THEN <<full_line__, from(full_line__, offset)>> ELSE <<full_line__>>
candidates_at_(t, pt) ==
    candidates_of_line_(full_line_content_at(t, pt), column_offset_at(t, pt))

\* The last of the regions that starts at or before the cursor, when it
\* belongs to the last search; else NoRegion.
nearest_(regions, I, lss) ==
    IF I = {} THEN NoRegion
    ELSE IF regions[MaxOf(I)].a < lss.a THEN NoRegion
    ELSE regions[MaxOf(I)]
nearest(regions, lss, cursor) ==
    nearest_(regions,
             {i \in DOMAIN regions : regions[i].a < lss.a \/ regions[i].a <= cursor},
             lss)

filename_at_(t, r) == IF r = NoRegion THEN <<>> ELSE substr(t, r)
near_candidates_(t, r) == IF r = NoRegion THEN <<>> ELSE candidates_at_(t, r.a)
own_candidates_(t, cursor) ==
    IF blank(full_line_content_at(t, cursor)) THEN <<>> ELSE candidates_at_(t, cursor)

read_position_(t, cursor, lss) ==
    [filename |-> filename_at_(t, nearest(filename_regions(t), lss, cursor)),
     line_candidates |->
         filter_(own_candidates_(t, cursor)
                 \o near_candidates_(t, nearest(match_regions(t), lss, cursor)))]
search_or_top_(found) == IF found = NoRegion THEN Region(0, 0) ELSE found
read_position(t, selection) ==
    read_position_(t, selection[1].a, search_or_top_(last_search_start(t)))

\* view.find_all(lit, sublime.LITERAL): the starts of the occurrences of
\* lit, from left to right, none overlapping the one before.
RECURSIVE find_all_literal(_, _, _)
find_all_literal_(t, lit, O) ==
    IF O = {} THEN <<>>
    ELSE <<MinOf(O)>> \o find_all_literal(t, lit, MinOf(O) + Len(lit))
find_all_literal(t, lit, from_) ==
    find_all_literal_(t, lit, {p \in from_..(Len(t) - Len(lit)) : IsAt(t, p, lit)})

\* The start of the first occurrence, in the order of the candidates, that
\* lies in [start, end) and ends its line; -1 for StopIteration.
RECURSIVE first_candidate(_, _, _, _, _)
first_hit_(t, line_candidates, start, end_, i, hits) ==
    IF hits # <<>> THEN hits[1]
    ELSE first_candidate(t, line_candidates, start, end_, i + 1)
first_candidate(t, line_candidates, start, end_, i) ==
    IF i > Len(line_candidates) THEN -1
    ELSE first_hit_(t, line_candidates, start, end_, i,
                    SelectSeq(find_all_literal(t, line_candidates[i], 0),
                              LAMBDA p : /\ start <= p /\ p < end_
                                         /\ endswith(full_line_content_at(t, p),
                                                     line_candidates[i])))

fif_addon_set_cursor(S, v, cursor, offset) ==
    apply_offset(set_sel(S, v, <<Region(cursor, cursor)>>), v, cursor, offset)

\* start and end of the section of the file: I holds the indices of the
\* filename regions of the last search with this name.
section_(t, fr, I, lss) ==
    IF I = {} THEN <<lss.a, size(t)>>
    ELSE <<fr[MaxOf(I)].a,
           IF MaxOf(I) < Len(fr) THEN fr[MaxOf(I) + 1].a ELSE size(t)>>
section_of_(t, filename, fr, lss) ==
    IF filename = <<>> THEN <<lss.a, size(t)>>
    ELSE section_(t, fr,
                  {i \in DOMAIN fr : /\ lss.a <= fr[i].a /\ fr[i].a < size(t)
                                     /\ substr(t, fr[i]) = filename},
                  lss)

\* A variant that stays at the start of the section.
hit_or_start_ignoring_hit_(hit, start) == start
hit_or_start_(hit, start) == IF hit >= 0 THEN hit ELSE start

restore_in_section_(S, v, row_offset, col, line_candidates, section) ==
    run_command(S, v, "fif_addon_set_cursor",
                [cursor |-> text_point(
                                S.buffer[v],
                                row_of(S.buffer[v],
                                       hit_or_start_(
                                           first_candidate(S.buffer[v], line_candidates,
                                                           section[1], section[2], 1),
                                           section[1])),
                                col),
                 offset |-> row_offset])

restore_previous_cursor_(S, v, row_offset, col, position_description, lss) ==
    IF lss = NoRegion THEN S
    ELSE restore_in_section_(S, v, row_offset, col,
                             position_description.line_candidates,
                             section_of_(S.buffer[v], position_description.filename,
                                         filename_regions(S.buffer[v]), lss))
restore_previous_cursor(S, v, row_offset, col, position_description) ==
    restore_previous_cursor_(S, v, row_offset, col, position_description,
                             last_search_start(S.buffer[v]))

\* ---------------------------------------------------------- the commands

\* A setting that is not set is the empty sequence, one set to n is <<n>>.
NotSet == <<>>
Setting(n) == <<n>>

NoJob == [id |-> 0, state |-> "idle", rest |-> <<>>, start |-> 0]

\* window.run_command("find_all"): the host starts a search with what the
\* find panel holds; it renders the result later.  A search that is
\* still being rendered is given up.
find_all(S) ==
    [log(S, "find_all", [context_lines |-> S.context_lines])
     EXCEPT !.jobs = @ + 1,
            !.job = [id |-> S.jobs + 1, state |-> "searching", rest |-> <<>>,
                     start |-> 0]]

\* settings.set("find_in_files_context_lines", value)
set_context_lines_(S, value) ==
    [log(S, "settings.set", [find_in_files_context_lines |-> value])
     EXCEPT !.context_lines = value]

\* with modified_context_lines_setting(view): window.run_command("find_all")
modified_context_lines_setting(S, v) ==
    IF S.context_lines = NotSet \/ S.current_context[v] = NotSet THEN find_all(S)
    ELSE set_context_lines_(find_all(set_context_lines_(S, S.current_context[v])),
                            S.context_lines)

\* The options of show_panel besides the panel: none when the headline
\* has no pattern; raised tells of the KeyError of translate_flag.
NoOptions == [raised |-> FALSE, prefilled |-> FALSE, pattern |-> <<>>, flags |-> {}]
KeyError == [raised |-> TRUE, prefilled |-> FALSE, pattern |-> <<>>, flags |-> {}]

\* flag: (flag not in used_flags) if toggle else (flag in used_flags)
\* A variant in which a toggled flag is always switched on.
flag_value_toggled_on_(flag, toggle, used_flags) ==
    toggle \/ flag \in used_flags
flag_value_(flag, toggle, used_flags) ==
    IF toggle THEN flag \notin used_flags ELSE flag \in used_flags

\* The flags whose option is True.
flags_(used_flags, toggle_case_sensitive, toggle_regex, toggle_whole_word) ==
    {x[1] : x \in {y \in {<<"case_sensitive", toggle_case_sensitive>>,
                          <<"regex", toggle_regex>>,
                          <<"whole_word", toggle_whole_word>>} :
                      flag_value_(y[1], y[2], used_flags)}}

pattern_(pattern, toggle_regex, regex) ==
    IF ~toggle_regex THEN pattern
    ELSE IF regex THEN re_escape(pattern)
    ELSE re_unescape(pattern)

options_(pattern, toggle_regex, flags) ==
    [raised |-> FALSE, prefilled |-> TRUE,
     pattern |-> pattern_(pattern, toggle_regex, "regex" \in flags),
     flags |-> flags]

used_flags_(words) == {translate_flag(words[i]) : i \in DOMAIN words}

options_of_flags_(pattern, used_flags, toggle_case_sensitive, toggle_regex, toggle_whole_word) ==
    IF "KeyError" \in used_flags THEN KeyError
    ELSE options_(pattern, toggle_regex,
                  flags_(used_flags, toggle_case_sensitive, toggle_regex,
                         toggle_whole_word))

options_of_match_(match, toggle_case_sensitive, toggle_regex, toggle_whole_word) ==
    IF ~match.matched THEN NoOptions
    ELSE options_of_flags_(
             match.pattern,
             used_flags_(IF match.flags # <<>> THEN split(match.flags) ELSE <<>>),
             toggle_case_sensitive, toggle_regex, toggle_whole_word)

panel_options(search_info, toggle_case_sensitive, toggle_regex, toggle_whole_word) ==
    options_of_match_(SEARCH_INFO_RE(search_info), toggle_case_sensitive,
                      toggle_regex, toggle_whole_word)

\* The registrations of lines 127 to 139.
refresh_register_(S, v, at_top, below_headline, restore, check) ==
    on_search_finished(
        IF below_headline
        THEN on_search_finished(
                 IF at_top /\ is_result_buffer(S, v)
                 THEN on_search_finished(S, v, [fn |-> "fix_leading_newlines"])
                 ELSE S,
                 v, restore)
        ELSE IF at_top /\ is_result_buffer(S, v)
        THEN on_search_finished(S, v, [fn |-> "fix_leading_newlines"])
        ELSE S,
        v, check)

\* Lines 111 to 139, with cursor the start of the first selection; the row
\* of the cursor is kept with the callback that restores it.
refresh_rerun_(S, v, last_search_start_a, search_headline_span, cursor) ==
    refresh_register_(
        log(modified_context_lines_setting(
                replace(S, v, Region(Max(0, last_search_start_a - 2),
                                     size(S.buffer[v])), <<>>),
                v),
            "focus_panel", [name |-> "find_results"]),
        v,
        Max(0, last_search_start_a - 2) = 0,
        row_of(S.buffer[v], cursor) > row_of(S.buffer[v], last_search_start_a),
        [fn |-> "restore_previous_cursor",
         row_offset |-> y_offset(S, v, cursor),
         col |-> col_of(S.buffer[v], cursor),
         position_description |-> read_position(S.buffer[v], S.sel[v]),
         row |-> row_of(S.buffer[v], cursor)],
        [fn |-> "check_if_result_changed",
         previous_result |-> substr(S.buffer[v],
                                    Region(search_headline_span.b, size(S.buffer[v])))])

\* A variant without the return of line 109.
refresh_options_no_return_(S, v, pause, last_search_start_a, search_headline_span, options) ==
    IF options.raised THEN log(S, "raise", [error |-> "KeyError"])
    ELSE refresh_rerun_(
             log(S, "show_panel", [panel |-> "find_in_files", options |-> options]),
             v, last_search_start_a, search_headline_span, S.sel[v][1].a)

\* Lines 102 to 109.
refresh_options_(S, v, pause, last_search_start_a, search_headline_span, options) ==
    IF options.raised THEN log(S, "raise", [error |-> "KeyError"])
    ELSE IF pause
    THEN log(S, "show_panel", [panel |-> "find_in_files", options |-> options])
    ELSE refresh_rerun_(
             log(S, "show_panel", [panel |-> "find_in_files", options |-> options]),
             v, last_search_start_a, search_headline_span, S.sel[v][1].a)

\* Lines 76 to 100.
refresh_headline_(S, v, toggle_case_sensitive, toggle_regex, toggle_whole_word, pause, last_search_start_a, search_headline_span) ==
    refresh_options_(S, v, pause, last_search_start_a, search_headline_span,
                     panel_options(substr(S.buffer[v], search_headline_span),
                                   toggle_case_sensitive, toggle_regex,
                                   toggle_whole_word))

refresh_found_(S, v, toggle_case_sensitive, toggle_regex, toggle_whole_word, pause, found) ==
    IF found = NoRegion THEN S
    ELSE refresh_headline_(S, v, toggle_case_sensitive, toggle_regex,
                           toggle_whole_word, pause, found.a,
                           line(S.buffer[v], found.a))

fif_addon_refresh_last_search(S, v, toggle_case_sensitive, toggle_regex, toggle_whole_word, pause) ==
    refresh_found_(S, v, toggle_case_sensitive, toggle_regex, toggle_whole_word,
                   pause, last_search_start(S.buffer[v]))

\* view.word(region): the region grown to the start of the word its
\* beginning is in and to the end of the word its end is in, in order.
WordChar == {"f", "o", "b", "a", "r", "x", "y"}

RECURSIVE word_start(_, _)
word_start(t, p) ==
    IF p > 0 /\ t[p] \in WordChar THEN word_start(t, p - 1) ELSE p

RECURSIVE word_end(_, _)
word_end(t, p) ==
    IF p < Len(t) /\ t[p + 1] \in WordChar THEN word_end(t, p + 1) ELSE p

word(t, r) == Region(word_start(t, begin(r)), word_end(t, end(r)))

fif_addon_quick_search_(S, sel_, t, where) ==
    log(find_all(log(S, "show_panel",
                     [panel |-> "find_in_files",
                      pattern |-> substr(t, sel_),
                      where |-> where,
                      regex |-> FALSE,
                      case_sensitive |-> FALSE,
                      whole_word |-> (word(t, sel_) = sel_)])),
        "focus_panel", [name |-> "find_results"])
fif_addon_quick_search(S, v, where) ==
    fif_addon_quick_search_(S, S.sel[v][1], S.buffer[v], where)

\* The host's append: the characters are put at the end of the view and the
\* listeners see the modification.  The characters that bring the headline
\* of the running search put the caret on it.
append(S, v, characters) ==
    on_modified(
        [S EXCEPT !.buffer[v] = @ \o characters,
                  !.change_count[v] = @ + 1,
                  !.sel[v] = IF /\ Len(S.buffer[v]) <= S.job.start
                                /\ S.job.start < Len(S.buffer[v]) + Len(characters)
                             THEN <<Region(S.job.start, S.job.start)>>
                             ELSE @],
        v)

\* The commands and the callbacks by name.
call(S, v, fn, args) ==
    IF v \notin S.open THEN S
    ELSE CASE fn = "fif_addon_refresh_last_search" ->
                fif_addon_refresh_last_search(
                    S, v, args.toggle_case_sensitive, args.toggle_regex,
                    args.toggle_whole_word, args.pause)
           [] fn = "fif_addon_quick_search" -> fif_addon_quick_search(S, v, args.where)
           [] fn = "fif_addon_replace_text" ->
                fif_addon_replace_text(S, v, args.text, args.region)
           [] fn = "fif_addon_set_cursor" ->
                fif_addon_set_cursor(S, v, args.cursor, args.offset)
           [] fn = "fif_addon_next_match" -> fif_addon_next_match(S, v)
           [] fn = "fif_addon_prev_match" -> fif_addon_prev_match(S, v)
           [] fn = "fif_addon_goto" -> fif_addon_goto(S, v, args.preview)
           [] fn = "fif_addon_set_selection" ->
                fif_addon_set_selection(S, v, args.start, args.end)
           [] fn = "right_delete" -> right_delete(S, v)
           [] fn = "append" -> append(S, v, args.characters)
           [] fn = "fix_leading_newlines" -> fix_leading_newlines(S, v)
           [] fn = "restore_previous_cursor" ->
                restore_previous_cursor(S, v, args.row_offset, args.col,
                                        args.position_description)
           [] fn = "check_if_result_changed" ->
                check_if_result_changed(S, v, args.previous_result)
           [] fn = "carry_selection_to_view" -> carry_selection_to_view(S, v, args)

\* fif_addon_await_loading_views.on_load
on_load(S, v) == run_handlers(S, v, "_on_loaded")

\* ------------------------------------------------------ fif_addon_listener

\* window.get_view_index(view)[1], from 0; -1 for a view without a tab.
get_view_index_(tabs_, I) == IF I = {} THEN -1 ELSE MinOf(I) - 1
get_view_index(S, v) ==
    IF v \notin S.open THEN -1
    ELSE get_view_index_(S.tabs, {i \in DOMAIN S.tabs : S.tabs[i] = v})

\* window.set_view_index(view, group, index): the tab is taken out and put
\* back as the tab of this index.
set_view_index_(S, v, index, others) ==
    [log(S, "set_view_index", [view |-> v, index |-> index])
     EXCEPT !.tabs = SubSeq(others, 1, index) \o <<v>>
                       \o SubSeq(others, index + 1, Len(others))]
set_view_index(S, v, index) ==
    set_view_index_(S, v, index, SelectSeq(S.tabs, LAMBDA x : x # v))

\* place_view(window, view, after); the window has one group, and a view
\* without a tab is in no group.
place_view_(S, v, current_index, index) ==
    IF current_index = -1 THEN S
    ELSE IF index = -1 THEN S
    ELSE set_view_index(S, v, IF index < current_index THEN index + 1 ELSE index)
place_view(S, v, after) ==
    place_view_(S, v, get_view_index(S, v), get_view_index(S, after))

\* on_activated_async in three steps, between which the UI thread can run:
\* lines 340 to 347, lines 348 to 350, lines 351 to 353.  go tells whether
\* the handler goes on.
on_activated_async_1_(S, v) ==
    IF is_applicable(S, v)
    THEN [S |-> [log(S, "assign_syntax", [view |-> v])
                 EXCEPT !.handle_modified_events = Put(@, WINDOW, TRUE)],
          go |-> TRUE, current_cc |-> S.change_count[v]]
    ELSE [S |-> S, go |-> FALSE, current_cc |-> 0]
on_activated_async_2_(S, v, current_cc) ==
    IF Get(S.change_counts_by_window, WINDOW, NotSet) # Setting(current_cc)
    THEN [S |-> [S EXCEPT !.change_counts_by_window =
                              Put(@, WINDOW, Setting(current_cc))],
          go |-> TRUE, current_cc |-> current_cc]
    ELSE [S |-> S, go |-> FALSE, current_cc |-> current_cc]
on_activated_async_3_(S, v, previous_view) ==
    IF previous_view = None THEN S ELSE place_view(S, v, previous_view)

\* The handler run in one piece.
on_activated_async_23_(S, v, r) ==
    IF ~r.go THEN r.S
    ELSE on_activated_async_3_(r.S, v, Get(r.S.previous_views, WINDOW, None))
on_activated_async_12_(S, v, r) ==
    IF ~r.go THEN r.S
    ELSE on_activated_async_23_(r.S, v, on_activated_async_2_(r.S, v, r.current_cc))
on_activated_async(S, v) ==
    on_activated_async_12_(S, v, on_activated_async_1_(S, v))

on_modified_async(S, v) ==
    IF is_applicable(S, v) /\ Get(S.handle_modified_events, WINDOW, FALSE)
    THEN [S EXCEPT !.change_counts_by_window =
                       Put(@, WINDOW, Setting(S.change_count[v]))]
    ELSE S

on_pre_close(S, v) ==
    IF is_applicable(S, v)
    THEN [S EXCEPT !.change_counts_by_window = Pop(@, WINDOW),
                   !.previous_views = Pop(@, WINDOW),
                   !.handle_modified_events = Pop(@, WINDOW)]
    ELSE S

\* The views of the model are no widgets: view.element() is None.
deactivated_(S, v) ==
    IF is_applicable(S, v)
    THEN [S EXCEPT !.handle_modified_events = Put(@, WINDOW, FALSE)]
    ELSE S
on_deactivated(S, v) ==
    deactivated_([S EXCEPT !.previous_views = Put(@, WINDOW, v)], v)

\* ------------------------------------------------- the texts of the model

\* the headline the host writes: Searching 2 files for "x"
HeadlinePlain ==
    <<"S","e","a","r","c","h","i","n","g"," ","2"," ","f","i","l","e","s",
      " ","f","o","r"," ","\"","x","\"">>

FlagsRegex ==
    <<" ","(","r","e","g","e","x",")">>

FlagsCaseWord ==
    <<" ","(","c","a","s","e"," ","s","e","n","s","i","t","i","v","e",",",
      " ","w","h","o","l","e"," ","w","o","r","d",")">>

FlagsAll ==
    <<" ","(","r","e","g","e","x",","," ","c","a","s","e"," ","s","e","n",
      "s","i","t","i","v","e",","," ","w","h","o","l","e"," ","w","o","r",
      "d",")">>

\* a flag translate_flag does not know
FlagsUnknown ==
    <<" ","(","r","e","g","e","x",","," ","f","u","z","z","y",")">>

\* a search for the empty pattern: SEARCH_INFO_RE finds no pattern
HeadlineEmptyPattern ==
    <<"S","e","a","r","c","h","i","n","g"," ","2"," ","f","i","l","e","s",
      " ","f","o","r"," ","\"","\"">>

\* a pattern with characters re.escape escapes
HeadlineSpecial ==
    <<"S","e","a","r","c","h","i","n","g"," ","2"," ","f","i","l","e","s",
      " ","f","o","r"," ","\"","x",".","(","y",")","\"">>

\* the same pattern escaped, of a search with regular expressions
HeadlineEscaped ==
    <<"S","e","a","r","c","h","i","n","g"," ","2"," ","f","i","l","e","s",
      " ","f","o","r"," ","\"","x","\\",".","\\","(","y","\\",")","\"",
      " ","(","r","e","g","e","x",")">>

\* two files; a result line, a context line, a line with two matches
BodyA ==
    <<"\n","/","a",":","\n"," "," ","1",":"," ","x","\n"," "," ","2"," ",
      " ","y","\n","\n","/","b",":","\n"," "," ","7",":"," ","x","x","\n",
      "\n">>

SummaryA ==
    <<"3"," ","m","a","t","c","h","e","s"," ","a","c","r","o","s","s"," ",
      "2"," ","f","i","l","e","s">>

\* one file with one match
BodyB ==
    <<"\n","/","a",":","\n"," "," ","1",":"," ","y"," ","x","\n","\n">>

SummaryB ==
    <<"1"," ","m","a","t","c","h"," ","i","n"," ","1"," ","f","i","l","e">>

\* one file with two matches, the second line also ends the first
BodyC ==
    <<"\n","/","a",":","\n"," "," ","1",":"," ","a"," "," ","2",":"," ","x",
      "\n"," "," ","2",":"," ","x","\n","\n">>

SummaryC ==
    <<"2"," ","m","a","t","c","h","e","s"," ","i","n"," ","1"," ","f","i","l","e">>

\* one file with one match, in a line that reads like a summary
BodyM ==
    <<"\n","/","a",":","\n"," "," ","1",":"," ","2"," ","m","a","t","c","h",
      "e","s"," ","x","\n","\n">>

\* nothing found
BodyZ ==
    <<"\n">>

SummaryZ ==
    <<"0"," ","m","a","t","c","h","e","s">>

\* results without a headline
NoHeadlineText ==
    <<"/","a",":","\n"," "," ","1",":"," ","x","\n","\n","1"," ","m","a",
      "t","c","h"," ","i","n"," ","1"," ","f","i","l","e","\n">>

\* no number of files
NearMissNoCount ==
    <<"S","e","a","r","c","h","i","n","g"," ","f","i","l","e","s"," ","f",
      "o","r"," ","\"","x","\"","\n","\n","0"," ","m","a","t","c","h","e",
      "s","\n">>

\* the headline does not start its line
NearMissIndented ==
    <<" ","S","e","a","r","c","h","i","n","g"," ","2"," ","f","i","l","e",
      "s"," ","f","o","r"," ","\"","x","\"","\n","\n","0"," ","m","a","t",
      "c","h","e","s","\n">>

\* What the host writes for a search: the headline, an empty line, the
\* files with their lines, the summary.
Out(headline, body, summary) == headline \o <<NL>> \o body \o summary \o <<NL>>

\* The same after the listener has added the summary to the headline.
Summed(headline, body, summary) ==
    Out(headline \o CommaSpace \o summary, body, summary)

OutA == Out(HeadlinePlain, BodyA, SummaryA)
OutB == Out(HeadlinePlain, BodyB, SummaryB)
OutC == Out(HeadlinePlain, BodyC, SummaryC)
OutM == Out(HeadlinePlain, BodyM, SummaryB)
OutZ == Out(HeadlinePlain, BodyZ, SummaryZ)

\* What a search started by the model can find.
Outputs == {OutA, OutB, OutC, OutM, OutZ}

\* The host puts two newlines in front of what it appends to a view it
\* uses again.
Appended(t, out) == t \o <<NL, NL>> \o out

\* Results views with a last search whose lines the cursor is put on: one
\* search, one whose second result line also ends its first, and two
\* searches.
CursorSamples ==
    {Summed(HeadlinePlain, BodyA, SummaryA),
     Summed(HeadlinePlain, BodyC, SummaryC),
     Appended(Summed(HeadlinePlain, BodyB, SummaryB),
              Summed(HeadlinePlain, BodyA, SummaryA))}

\* Two searches as the host wrote them, no summary behind the headlines.
HostSamples == {Appended(OutB, OutA)}

\* Results views whose last headline has flags, or cannot be parsed.
HeadlineSamples ==
    {Summed(HeadlinePlain \o FlagsRegex, BodyB, SummaryB),
     Summed(HeadlinePlain \o FlagsCaseWord, BodyB, SummaryB),
     Summed(HeadlinePlain \o FlagsAll, BodyZ, SummaryZ),
     Summed(HeadlinePlain \o FlagsUnknown, BodyB, SummaryB),
     Summed(HeadlineSpecial, BodyZ, SummaryZ),
     Summed(HeadlineEscaped, BodyZ, SummaryZ),
     Out(HeadlineEmptyPattern, BodyZ, SummaryZ)}

\* Views without a line that starts with Searching N files.
NoHeadlineSamples == {<<>>, NoHeadlineText, NearMissNoCount, NearMissIndented}

\* The cursors of an initial state: the start of the text, and in the last
\* search the start of every line and a column inside the lines that have
\* one.
Cursors_(t, L) == {0} \cup L \cup {p + 3 : p \in {q \in L : line_end(t, q) >= q + 3}}
Cursors(t) ==
    Cursors_(t, {p \in LineStarts(t) : last_search_start(t).a <= p})

\* ------------------------------------------------------------- the host

\* The async thread is in no handler.
Idle == [handler |-> "idle", view |-> None, pc |-> 0, current_cc |-> 0]

\* A window with the results view in a tab, holding the text t with the
\* selection s, and the views o of files in tabs behind it, holding the
\* text ft with the selection fs; the last of the tabs has the focus.  No
\* search is running and nothing is registered.
BeginIn(t, s, o, ft, fs) ==
    /\ open = {RESULTS} \cup o
    /\ buffer = [v \in Views |-> IF v = RESULTS THEN t
                                 ELSE IF v \in o THEN ft ELSE FileText]
    /\ sel = [v \in Views |-> IF v = RESULTS THEN s
                              ELSE IF v \in o THEN fs ELSE <<Region(0, 0)>>]
    /\ viewport = [v \in Views |-> 0]
    /\ change_count = [v \in Views |-> 0]
    /\ loading = [v \in Views |-> FALSE]
    /\ tabs = <<RESULTS>> \o SelectSeq(<<"f1", "f2">>, LAMBDA f : f \in o)
    /\ active = IF "f2" \in o THEN "f2" ELSE IF "f1" \in o THEN "f1" ELSE RESULTS
    /\ selected = {IF "f2" \in o THEN "f2" ELSE IF "f1" \in o THEN "f1" ELSE RESULTS}
    /\ semi = {}
    /\ cmds = <<>>
    /\ context_lines = Setting(2)
    /\ side_by_side = FALSE
    /\ current_context = [v \in Views |-> NotSet]
    /\ job = NoJob
    /\ jobs = 0
    /\ finished = {}
    /\ previous_views = EmptyDict
    /\ change_counts_by_window = EmptyDict
    /\ handle_modified_events = EmptyDict
    /\ _on_loaded = EmptyDict
    /\ _on_search_finished = EmptyDict
    /\ _pending_first_result = {}
    /\ prev_loc = [v \in Views |-> <<<<>>, -1>>]
    /\ timeouts = <<>>
    /\ async = <<>>
    /\ apc = Idle

\* The same with the results view alone.
Begin(t, s) == BeginIn(t, s, {}, FileText, <<Region(0, 0)>>)

\* What a step leaves of the log of the step before: nothing.
Fresh(S) == [S EXCEPT !.cmds = <<>>]

\* The first n lines of the text t, with their newlines.
RECURSIVE head_lines(_, _)
head_line_(t, n, cut) ==
    SubSeq(t, 1, cut) \o head_lines(SubSeq(t, cut + 1, Len(t)), n - 1)
head_lines(t, n) ==
    IF n = 0 \/ t = <<>> THEN <<>>
    ELSE head_line_(t, n, Min(line_end(t, 0) + 1, Len(t)))

\* The host appends chunk, the next lines of todo; with the last line the
\* search is finished.
rendered_(S, v, todo, start, chunk) ==
    run_command(
        [S EXCEPT !.job = [id |-> S.job.id,
                           state |-> IF Len(chunk) = Len(todo) THEN "idle"
                                     ELSE "rendering",
                           rest |-> SubSeq(todo, Len(chunk) + 1, Len(todo)),
                           start |-> start],
                  !.finished = IF Len(chunk) = Len(todo) THEN @ \cup {S.job.id}
                               ELSE @],
        v, "append", [characters |-> chunk])

\* The host renders the next n lines of the running search: what it writes
\* for a search is two newlines and out, and the headline is then behind
\* the two newlines.
render_(S, v, todo, start, n) == rendered_(S, v, todo, start, head_lines(todo, n))
render(S, v, out, n) ==
    IF S.job.state = "searching"
    THEN render_(S, v, <<NL, NL>> \o out, Len(S.buffer[v]) + 2, n)
    ELSE render_(S, v, S.job.rest, S.job.start, n)

\* The sizes of the chunks the host appends, in lines: it appends line by
\* line, so that the listeners see every stage of the rendering.
ChunkLines == {1}

\* ---------------------------------------------- refreshing the last search

\* How often the model starts a search.
MaxSearches == 1

Step(name, args) == [name |-> name, args |-> args]

InitRefresh ==
    /\ \/ \E t \in CursorSamples : \E c \in Cursors(t) :
              Begin(t, <<Region(c, c)>>)
       \/ \E t \in HostSamples \cup HeadlineSamples \cup NoHeadlineSamples :
              Begin(t, <<Region(Len(t), Len(t))>>)
    /\ op = Step("init", <<>>)

\* No search is being rendered and no callback waits for the UI thread.
Settled == job.state = "idle" /\ timeouts = <<>>

\* The user runs fif_addon_refresh_last_search in the results view once
\* the view has settled.
Refresh(args) ==
    /\ RESULTS \in open
    /\ Settled
    /\ jobs < MaxSearches
    /\ Become(run_command(Fresh(St), RESULTS, "fif_addon_refresh_last_search", args))
    /\ op' = Step("refresh", args)
    /\ UNCHANGED <<async, apc>>

\* The host appends the next lines of the search it is rendering.
HostRender(out, n) ==
    /\ RESULTS \in open
    /\ job.state # "idle"
    /\ job.state = "rendering" => out = job.rest
    /\ job.state = "searching" => out \in Outputs
    /\ Become(render(Fresh(St), RESULTS, out, n))
    /\ op' = Step("render", [job |-> job.id])
    /\ UNCHANGED <<async, apc>>

\* The UI thread runs the next callback of sublime.set_timeout.
RunTimeout ==
    /\ timeouts # <<>>
    /\ Become(call([Fresh(St) EXCEPT !.timeouts = Tail(@)],
                   Head(timeouts).view, Head(timeouts).call.fn, Head(timeouts).call))
    /\ op' = Step(Head(timeouts).call.fn, Head(timeouts))
    /\ UNCHANGED <<async, apc>>

RefreshArgs ==
    [toggle_case_sensitive : BOOLEAN, toggle_regex : BOOLEAN,
     toggle_whole_word : BOOLEAN, pause : BOOLEAN]

RefreshStep == \E args \in RefreshArgs : Refresh(args)

HostRenderStep ==
    \E out \in Outputs \cup {job.rest} : \E n \in ChunkLines : HostRender(out, n)

NextRefresh == RefreshStep \/ HostRenderStep \/ RunTimeout

SpecRefresh == InitRefresh /\ [][NextRefresh]_vars

\* ------------------------------------- refreshing while a search renders

\* How often the model refreshes without waiting for the search.
MaxAgain == 2

DefaultArgs ==
    [toggle_case_sensitive |-> FALSE, toggle_regex |-> FALSE,
     toggle_whole_word |-> FALSE, pause |-> FALSE]

\* Two finished searches, or one, with the cursor in the last one.
InitAgain ==
    /\ \E t \in CursorSamples : \E c \in {Len(t), Len(t) - 10} :
           Begin(t, <<Region(c, c)>>)
    /\ op = Step("init", <<>>)

\* The user runs fif_addon_refresh_last_search whenever the UI thread is
\* free, also while the host renders and while callbacks wait.
RefreshAnytime ==
    /\ RESULTS \in open
    /\ jobs < MaxAgain
    /\ Become(run_command(Fresh(St), RESULTS, "fif_addon_refresh_last_search",
                          DefaultArgs))
    /\ op' = Step("refresh", DefaultArgs)
    /\ UNCHANGED <<async, apc>>

NextAgain == RefreshAnytime \/ HostRenderStep \/ RunTimeout

SpecAgain == InitAgain /\ [][NextAgain]_vars

\* ------------------------------------------------------------ quick search

\* The text of the view the quick search is run in.
QuickText == <<"f", "o", "o", " ", "b", "a", "r">>
QUICK == "f1"

\* The results view is empty and a view of a file holds QuickText with any
\* selection, forward or reversed.
InitQuick ==
    /\ \E b \in 0..Len(QuickText) : \E a \in 0..Len(QuickText) :
           BeginIn(<<>>, <<Region(0, 0)>>, {QUICK}, QuickText, <<Region(a, b)>>)
    /\ op = Step("init", <<>>)

\* The values of the argument where.
Wheres == {None, "<open files>"}

\* The user runs fif_addon_quick_search in the view of the file.
QuickSearch(where) ==
    /\ QUICK \in open
    /\ jobs < MaxSearches
    /\ Become(run_command(Fresh(St), QUICK, "fif_addon_quick_search",
                          [where |-> where]))
    /\ op' = Step("quick_search", [where |-> where])
    /\ UNCHANGED <<async, apc>>

QuickSearchStep == \E where \in Wheres : QuickSearch(where)

NextQuick == QuickSearchStep \/ HostRenderStep

SpecQuick == InitQuick /\ [][NextQuick]_vars

\* -------------------------------------------------------------- navigation

\* How many callbacks of fif_addon_goto may wait, for a view to load or for
\* the UI thread, when the user navigates.
MaxPending == 1

\* Results views to navigate in: a search with matches, a last search
\* without matches behind one with a match, a search without matches, and
\* lines of a result without a headline.
NavSamples ==
    {Summed(HeadlinePlain, BodyA, SummaryA),
     Appended(Summed(HeadlinePlain, BodyB, SummaryB), OutZ),
     OutZ,
     NoHeadlineText}

InitNav ==
    /\ \E t \in NavSamples : \E c \in Cursors(t) : Begin(t, <<Region(c, c)>>)
    /\ op = Step("init", <<>>)

\* The callbacks that wait.
Pending ==
    Len(timeouts)
      + Cardinality({x \in Views \X (1..(MaxPending + 1)) :
                        /\ x[1] \in DOMAIN _on_loaded
                        /\ x[2] <= Len(_on_loaded[x[1]])})

\* The user runs a navigation command in the results view.
Navigate(cmd, args) ==
    /\ RESULTS \in open
    /\ Pending < MaxPending
    /\ Become(run_command(Fresh(St), RESULTS, cmd, args))
    /\ op' = Step(cmd, args)
    /\ UNCHANGED <<async, apc>>

NextMatch == Navigate("fif_addon_next_match", NoArgs)
PrevMatch == Navigate("fif_addon_prev_match", NoArgs)
Goto == \E preview \in {"False", "True", "toggle"} :
            Navigate("fif_addon_goto", [preview |-> preview])

\* The host has loaded the file of a view.
Loaded(v) ==
    /\ v \in open
    /\ loading[v]
    /\ Become(on_load([Fresh(St) EXCEPT !.loading[v] = FALSE], v))
    /\ op' = Step("on_load", [view |-> v])
    /\ UNCHANGED <<async, apc>>

LoadedStep == \E v \in Views : Loaded(v)

NextNav == NextMatch \/ PrevMatch \/ Goto \/ LoadedStep \/ RunTimeout

SpecNav == InitNav /\ [][NextNav]_vars

\* ------------------------------------------------------------ the listener

\* How many events may wait for the async thread.
MaxAsync == 2

\* A variant with every handler on the UI thread.
thread_of_ui_(handler) == "ui"

\* The thread the host calls a handler of fif_addon_listener on: the
\* handlers whose names end with _async run on the async thread, the others
\* on the UI thread.
thread_of(handler) ==
    IF handler \in {"on_activated_async", "on_modified_async"} THEN "async" ELSE "ui"

Event(handler, v) == [handler |-> handler, view |-> v]

\* The handlers of fif_addon_listener by name, each run in one piece.
handle(S, e) ==
    CASE e.handler = "on_activated_async" -> on_activated_async(S, e.view)
      [] e.handler = "on_modified_async" -> on_modified_async(S, e.view)
      [] e.handler = "on_pre_close" -> on_pre_close(S, e.view)
      [] e.handler = "on_deactivated" -> on_deactivated(S, e.view)

\* The host tells the listener of the events es: the handlers of the UI
\* thread run at once and in order, the others wait for the async thread.
RECURSIVE fire(_, _)
fire(S, es) ==
    IF es = <<>> THEN S
    ELSE fire(IF thread_of(Head(es).handler) = "ui" THEN handle(S, Head(es)) ELSE S,
              Tail(es))
on_ui(es) == SelectSeq(es, LAMBDA e : thread_of(e.handler) = "ui")
on_async(es) == SelectSeq(es, LAMBDA e : thread_of(e.handler) = "async")

\* A step of the UI thread that ends in the state S, in which the host has
\* told the listener of the events ran, and that brings the events es.
\* The step keeps record of whether the results view has been written to
\* while it was not the active view, and not been activated since.
Happened(name, S, ran, es) ==
    /\ Len(async) + Len(on_async(ran \o es)) <= MaxAsync
    /\ Become(fire(S, es))
    /\ async' = async \o on_async(ran \o es)
    /\ apc' = apc
    /\ op' = Step(name, [ui |-> on_ui(ran \o es), thread |-> "ui",
                         unseen |-> \/ op.args.unseen
                                    \/ /\ active # RESULTS
                                       /\ S.change_count[RESULTS]
                                            # change_count[RESULTS]])

\* one on_modified_async for every change of the results view
modified_(n) == [i \in 1..n |-> Event("on_modified_async", RESULTS)]
Modified(name, S) ==
    Happened(name, S, <<>>,
             modified_(S.change_count[RESULTS] - change_count[RESULTS]))

\* The results view with one search and the view of a file, which has the
\* focus.
InitListener ==
    /\ BeginIn(OutB, <<Region(Len(OutB), Len(OutB))>>, {"f1"}, FileText,
               <<Region(0, 0)>>)
    /\ op = Step("init", [ui |-> <<>>, thread |-> "ui", unseen |-> FALSE])

\* The user goes to the tab of the view v.
Activate(v) ==
    /\ v \in open
    /\ v # active
    /\ get_view_index(St, v) >= 0
    /\ Happened("activate",
                [Fresh(St) EXCEPT !.active = v, !.selected = {v}],
                <<>>,
                (IF active \in open THEN <<Event("on_deactivated", active)>> ELSE <<>>)
                    \o <<Event("on_activated_async", v)>>)

\* The view that gets the focus when v is closed: the first other tab.
next_active_(others) == IF others = <<>> THEN None ELSE others[1]
closed_(S, v, next) ==
    [close(S, v) EXCEPT !.active = IF S.active = v THEN next ELSE @,
                        !.selected = IF S.active = v /\ next # None THEN {next} ELSE @]

\* The user closes the view v: the host tells the listener before it closes
\* the view, and gives the focus to another view when v had it.
Close(v) ==
    /\ v \in open
    /\ Happened("close",
                closed_(fire(Fresh(St), <<Event("on_pre_close", v)>>),
                        v, next_active_(SelectSeq(tabs, LAMBDA x : x # v))),
                <<Event("on_pre_close", v)>>,
                IF v = active /\ SelectSeq(tabs, LAMBDA x : x # v) # <<>>
                THEN <<Event("on_activated_async",
                             next_active_(SelectSeq(tabs, LAMBDA x : x # v)))>>
                ELSE <<>>)

\* The user refreshes the search of the results view.
RefreshL ==
    /\ RESULTS \in open
    /\ Settled
    /\ jobs < MaxSearches
    /\ Modified("refresh",
                run_command(Fresh(St), RESULTS, "fif_addon_refresh_last_search",
                            DefaultArgs))

\* The host renders the search, which finds nothing or what it found before.
HostRenderL ==
    /\ RESULTS \in open
    /\ job.state # "idle"
    /\ \E out \in {OutB} :
           Modified("render", render(Fresh(St), RESULTS, out, 1))

RunTimeoutL ==
    /\ timeouts # <<>>
    /\ Modified(Head(timeouts).call.fn,
                call([Fresh(St) EXCEPT !.timeouts = Tail(@)],
                     Head(timeouts).view, Head(timeouts).call.fn, Head(timeouts).call))

\* The async thread takes the next event and runs the handler, or its first
\* step.
started_(e, r) ==
    /\ Become(r.S)
    /\ apc' = IF r.go THEN [handler |-> e.handler, view |-> e.view, pc |-> 2,
                            current_cc |-> r.current_cc]
              ELSE Idle
AsyncStart ==
    /\ apc = Idle
    /\ async # <<>>
    /\ async' = Tail(async)
    /\ op' = Step(Head(async).handler,
                  [ui |-> <<>>, thread |-> "async", unseen |-> op.args.unseen])
    /\ IF Head(async).handler = "on_activated_async"
       THEN started_(Head(async), on_activated_async_1_(Fresh(St), Head(async).view))
       ELSE /\ Become(on_modified_async(Fresh(St), Head(async).view))
            /\ apc' = Idle

\* The async thread goes on with on_activated_async.
AsyncStep ==
    /\ apc # Idle
    /\ async' = async
    /\ op' = Step(apc.handler,
                  [ui |-> <<>>, thread |-> "async",
                   unseen |-> op.args.unseen /\ apc.view # RESULTS])
    /\ IF apc.pc = 2
       THEN /\ Become(on_activated_async_2_(Fresh(St), apc.view, apc.current_cc).S)
            /\ apc' = IF on_activated_async_2_(Fresh(St), apc.view, apc.current_cc).go
                      THEN [apc EXCEPT !.pc = 3] ELSE Idle
       ELSE /\ Become(on_activated_async_3_(Fresh(St), apc.view,
                                            Get(previous_views, WINDOW, None)))
            /\ apc' = Idle

ActivateStep == \E v \in Views : Activate(v)
CloseStep == \E v \in Views : Close(v)

NextListener ==
    \/ ActivateStep \/ CloseStep \/ RefreshL \/ HostRenderL \/ RunTimeoutL
    \/ AsyncStart \/ AsyncStep

SpecListener == InitListener /\ [][NextListener]_vars

\* ------------------------------------------ properties of the refresh

\* The headline of the last search of the text t, and what it shows read
\* off the text itself: the text between its first and its last quote, and
\* the flags whose words stand behind it.
LastHeadline(t) == substr(t, line(t, MaxOf(search_starts(t))))
Quotes(h) == {i \in DOMAIN h : h[i] = Q}
Quoted(h) == SubSeq(h, MinOf(Quotes(h)) + 1, MaxOf(Quotes(h)) - 1)
Shows(h, words) == \E i \in DOMAIN h : IsAt(h, i - 1, words)
Shown(h) ==
    {f \in {"regex", "case_sensitive", "whole_word"} :
        Shows(h, CASE f = "regex" -> F_regex
                   [] f = "case_sensitive" -> F_case_sensitive
                   [] f = "whole_word" -> F_whole_word)}
Toggled(args) ==
    {f \in {"regex", "case_sensitive", "whole_word"} :
        CASE f = "regex" -> args.toggle_regex
          [] f = "case_sensitive" -> args.toggle_case_sensitive
          [] f = "whole_word" -> args.toggle_whole_word}

\* The texts of the model whose last headline has a pattern and flags the
\* plugin knows.
Parsable ==
    CursorSamples \cup HostSamples
        \cup (HeadlineSamples
                \ {Summed(HeadlinePlain \o FlagsUnknown, BodyB, SummaryB),
                   Out(HeadlineEmptyPattern, BodyZ, SummaryZ)})

\* C4: in a view without a line that starts with Searching N files the
\* refresh runs no command at all, leaves text and selection as they are,
\* registers no callback and starts no search, whatever its arguments are.
C4_SilentWithoutHeadline ==
    [][(op'.name = "refresh" /\ buffer[RESULTS] \in NoHeadlineSamples)
        => /\ cmds' = <<>>
           /\ buffer' = buffer
           /\ sel' = sel
           /\ _on_search_finished' = _on_search_finished
           /\ timeouts' = timeouts
           /\ job' = job /\ jobs' = jobs]_vars

C4_Witness ==
    /\ op.name = "refresh"
    /\ buffer[RESULTS] = NearMissIndented
    /\ op.args.toggle_regex /\ ~op.args.pause
    /\ jobs = 0

\* C6: whenever the refresh fills the find panel, the value it passes for
\* each of the three flags is the flag's presence in the headline, negated
\* exactly when the flag's toggle is set; and it fills the panel for every
\* headline with a pattern and known flags.
C6_FlagsToggled ==
    [][(op'.name = "refresh")
        => /\ buffer[RESULTS] \in Parsable
                => /\ cmds' # <<>>
                   /\ cmds'[1].cmd = "show_panel"
                   /\ cmds'[1].args.options.prefilled
           /\ (/\ cmds' # <<>>
               /\ cmds'[1].cmd = "show_panel"
               /\ cmds'[1].args.options.prefilled)
                => \A f \in {"regex", "case_sensitive", "whole_word"} :
                       (f \in cmds'[1].args.options.flags)
                           = ((f \in Toggled(op'.args))
                                # (f \in Shown(LastHeadline(buffer[RESULTS]))))]_vars

C6_Witness ==
    /\ op.name = "refresh"
    /\ op.args.pause /\ op.args.toggle_regex /\ ~op.args.toggle_whole_word
    /\ cmds # <<>>
    /\ cmds[1].cmd = "show_panel"
    /\ cmds[1].args.options.flags = {"regex", "case_sensitive", "whole_word"}
    /\ Shown(LastHeadline(buffer[RESULTS])) = {"case_sensitive", "whole_word"}

\* C7: a refresh with pause leaves the text, the selection, the viewport,
\* the preference of the context lines, the registered callbacks and the
\* searches as they are and runs neither find_all nor focus_panel; when the
\* headline has a pattern and known flags, all it runs is show_panel for the
\* find panel, and without a toggle the panel gets the pattern and the flags
\* of the headline.
C7_PauseOnlyOpensPanel ==
    [][(op'.name = "refresh" /\ op'.args.pause)
        => /\ buffer' = buffer
           /\ sel' = sel
           /\ viewport' = viewport
           /\ context_lines' = context_lines
           /\ current_context' = current_context
           /\ _on_search_finished' = _on_search_finished
           /\ timeouts' = timeouts
           /\ job' = job /\ jobs' = jobs
           /\ \A i \in DOMAIN cmds' :
                  cmds'[i].cmd \notin {"find_all", "focus_panel", "settings.set"}
           /\ buffer[RESULTS] \in Parsable
                => /\ Len(cmds') = 1
                   /\ cmds'[1].cmd = "show_panel"
                   /\ cmds'[1].args.panel = "find_in_files"
                   /\ cmds'[1].args.options.prefilled
                   /\ Toggled(op'.args) = {}
                        => /\ cmds'[1].args.options.pattern
                                = Quoted(LastHeadline(buffer[RESULTS]))
                           /\ cmds'[1].args.options.flags
                                = Shown(LastHeadline(buffer[RESULTS]))]_vars

C7_Witness ==
    /\ op.name = "refresh"
    /\ op.args.pause /\ Toggled(op.args) = {}
    /\ Len(cmds) = 1
    /\ cmds[1].cmd = "show_panel"
    /\ cmds[1].args.options.pattern = <<"x", "\\", ".", "\\", "(", "y", "\\", ")">>
    /\ cmds[1].args.options.flags = {"regex"}
    /\ buffer[RESULTS] = Summed(HeadlineEscaped, BodyZ, SummaryZ)

\* C8: a refresh that searches again leaves of the text exactly what stood
\* before the two characters in front of the last headline.
C8_OnlyLastSearchDeleted ==
    [][(op'.name = "refresh" /\ jobs' # jobs)
        => buffer'[RESULTS]
             = SubSeq(buffer[RESULTS], 1,
                      Max(0, MaxOf(search_starts(buffer[RESULTS])) - 2))]_vars

\* The callback that restores the cursor has just run on a search that
\* rendered the text the refresh deleted.
Restored ==
    /\ op.name = "restore_previous_cursor"
    /\ timeouts # <<>>
    /\ Head(timeouts).call.fn = "check_if_result_changed"
    /\ Head(timeouts).call.previous_result
         = this_result_(buffer[RESULTS], last_search_start(buffer[RESULTS]))

\* The line of the row the cursor was on, and the lines above it down to
\* the name of its file, or to the headline when no file is named above it.
RowLine(t, row) == full_line_content_at(t, row_start(t, row))
SectionTop(t, row) ==
    MaxOf({r \in 0..row :
              \/ r = row_of(t, MaxOf(search_starts(t)))
              \/ /\ r > row_of(t, MaxOf(search_starts(t)))
                 /\ row_start(t, r) \in filename_starts(t)})
Unambiguous(t, row) ==
    \A r \in SectionTop(t, row)..(row - 1) :
        ~endswith(RowLine(t, r), RowLine(t, row))

RefreshCallbacks ==
    {"fix_leading_newlines", "restore_previous_cursor", "check_if_result_changed"}

\* C1: a callback that a refresh registered runs only after the search this
\* refresh started, or a later one, has been rendered to its summary.
C1_CallbacksAfterSearch ==
    op.name \in RefreshCallbacks => \E j \in finished : j >= op.args.call.job

\* ------------------------------------------ properties of the quick search

\* C10: the quick search fills the panel with the selected text, without
\* regex and case sensitivity, and with whole_word exactly when the span of
\* the selection is the span of a word.
C10_WholeWordOfSelection ==
    op.name = "quick_search"
        => /\ cmds[1].cmd = "show_panel"
           /\ cmds[1].args.pattern
                = SubSeq(QuickText, begin(sel[QUICK][1]) + 1, end(sel[QUICK][1]))
           /\ ~cmds[1].args.regex
           /\ ~cmds[1].args.case_sensitive
           /\ cmds[1].args.whole_word
                = /\ begin(sel[QUICK][1]) < end(sel[QUICK][1])
                  /\ \A p \in (begin(sel[QUICK][1]) + 1)..end(sel[QUICK][1]) :
                         QuickText[p] \in WordChar
                  /\ \/ begin(sel[QUICK][1]) = 0
                     \/ QuickText[begin(sel[QUICK][1])] \notin WordChar
                  /\ \/ end(sel[QUICK][1]) = Len(QuickText)
                     \/ QuickText[end(sel[QUICK][1]) + 1] \notin WordChar

\* -------------------------------------------- properties of the navigation

\* No match begins behind the point c.
NoneBehind(t, c) == \A i \in DOMAIN match_regions(t) : begin(match_regions(t)[i]) <= c
\* No match ends before the point c.
NoneBefore(t, c) == \A i \in DOMAIN match_regions(t) : end(match_regions(t)[i]) >= c

\* What a command that opens a file or moves the focus changes.
WindowUnchanged ==
    /\ cmds' = <<>>
    /\ open' = open /\ loading' = loading
    /\ tabs' = tabs /\ selected' = selected /\ semi' = semi
    /\ active' = active
    /\ timeouts' = timeouts /\ _on_loaded' = _on_loaded

\* C5: fif_addon_next_match without a match behind the caret and behind the
\* start of the last search, and fif_addon_prev_match without a match before
\* the caret and before the end of the view, leave the selection and the
\* viewport as they are and run no goto; fif_addon_goto, when it gets to
\* extract_goto_positions and that finds nothing, opens no file and leaves
\* the focus and the window as they are.
C5_NoTargetNoEffect ==
    [][/\ (/\ op'.name = "fif_addon_next_match"
           /\ NoneBehind(buffer[RESULTS], sel[RESULTS][1].b)
           /\ \/ search_starts(buffer[RESULTS]) = {}
              \/ NoneBehind(buffer[RESULTS], MaxOf(search_starts(buffer[RESULTS]))))
            => /\ sel' = sel /\ viewport' = viewport /\ prev_loc' = prev_loc
               /\ WindowUnchanged
       /\ (/\ op'.name = "fif_addon_prev_match"
           /\ NoneBefore(buffer[RESULTS], sel[RESULTS][1].b)
           /\ NoneBefore(buffer[RESULTS], Len(buffer[RESULTS])))
            => /\ sel' = sel /\ viewport' = viewport /\ prev_loc' = prev_loc
               /\ WindowUnchanged
       /\ (/\ op'.name = "fif_addon_goto"
           /\ ~(/\ op'.args.preview = "toggle"
                /\ preview_is_open(St, RESULTS)
                /\ prev_loc'[RESULTS] = prev_loc[RESULTS])
           /\ extract_goto_positions(buffer[RESULTS], sel[RESULTS]) = Positions(<<>>))
            => /\ sel' = sel /\ viewport' = viewport
               /\ WindowUnchanged]_vars

\* fif_addon_next_match has run with the caret behind the only match of the
\* view, which belongs to an older search.
C5_Witness ==
    /\ op.name = "fif_addon_next_match"
    /\ buffer[RESULTS] = Appended(Summed(HeadlinePlain, BodyB, SummaryB), OutZ)
    /\ match_regions(buffer[RESULTS]) # <<>>
    /\ sel[RESULTS] = <<Region(Len(buffer[RESULTS]), Len(buffer[RESULTS]))>>
    /\ cmds = <<>>

\* ---------------------------------------------- properties of the listener

\* C2: when a view has been closed, no dictionary of the plugin holds a
\* closed view, as key or as value, and with the results view closed the
\* entries of its window are gone.
C2_ClosedViewsForgotten ==
    op.name = "close"
        => /\ \A w \in DOMAIN previous_views : previous_views[w] \in open
           /\ DOMAIN _on_loaded \subseteq open
           /\ DOMAIN _on_search_finished \subseteq open
           /\ _pending_first_result \subseteq open
           /\ RESULTS \notin open
                => /\ change_counts_by_window = EmptyDict
                   /\ handle_modified_events = EmptyDict

Waiting(d) == Get(d, RESULTS, <<>>)

\* What a step found waiting for the UI thread when it began, and the
\* callbacks of a refresh that it added behind that.
Before == IF op'.name \in {"refresh", "render"} THEN timeouts ELSE Tail(timeouts)
AddedNow ==
    SelectSeq(SubSeq(timeouts', Len(Before) + 1, Len(timeouts')),
              LAMBDA e : e.call.fn \in RefreshCallbacks)
Rank(fn) ==
    CASE fn = "fix_leading_newlines" -> 1
      [] fn = "restore_previous_cursor" -> 2
      [] fn = "check_if_result_changed" -> 3
TextChanged == buffer'[RESULTS] # buffer[RESULTS]
EndsWithSummary(t) ==
    \E i \in 1..Len(t) :
        /\ t[i] \in Digit
        /\ \E j \in (i + 1)..Len(t) :
               /\ \A k \in i..(j - 1) : t[k] \in Digit
               /\ \/ IsAt(t, j - 1, <<" ","m","a","t","c","h"," ">>)
                  \/ IsAt(t, j - 1, <<" ","m","a","t","c","h","e","s"," ">>)
               /\ \A k \in i..(Len(t) - 1) : t[k] # NL

\* C11: what waits for the UI thread is never dropped or reordered by a
\* step; a step whose modification of the results view leaves a summary in
\* the last line schedules all the callbacks that waited for the end of the
\* search, once each and in the order of their registration, and takes
\* them out of the register; no other step schedules any of them, and they
\* stay registered; what a step registers is new, belongs to the search the
\* step started, and stands in the order fix_leading_newlines,
\* restore_previous_cursor, check_if_result_changed.
C11_ScheduledOnceInOrder ==
    [][/\ Len(timeouts') >= Len(Before)
       /\ SubSeq(timeouts', 1, Len(Before)) = Before
       /\ (TextChanged /\ EndsWithSummary(buffer'[RESULTS]))
            => /\ AddedNow = [i \in DOMAIN Waiting(_on_search_finished)
                                |-> [call |-> Waiting(_on_search_finished)[i],
                                     view |-> RESULTS]]
               /\ \A i \in DOMAIN Waiting(_on_search_finished') :
                      Waiting(_on_search_finished')[i].job > jobs
       /\ ~(TextChanged /\ EndsWithSummary(buffer'[RESULTS]))
            => /\ AddedNow = <<>>
               /\ Len(Waiting(_on_search_finished'))
                    >= Len(Waiting(_on_search_finished))
               /\ SubSeq(Waiting(_on_search_finished'), 1,
                         Len(Waiting(_on_search_finished)))
                    = Waiting(_on_search_finished)
       /\ \A i \in DOMAIN Waiting(_on_search_finished') :
              \/ /\ i <= Len(Waiting(_on_search_finished))
                 /\ Waiting(_on_search_finished')[i] = Waiting(_on_search_finished)[i]
              \/ /\ Waiting(_on_search_finished')[i].job = jobs'
                 /\ jobs' > jobs
                 /\ \A k \in 1..(i - 1) :
                        Waiting(_on_search_finished')[k].job = jobs'
                            => Rank(Waiting(_on_search_finished')[k].fn)
                                 < Rank(Waiting(_on_search_finished')[i].fn)]_vars

\* The host has appended the summary of a search whose refresh registered
\* all three callbacks, and they wait for the UI thread in their order.
C11_Witness ==
    /\ op.name = "render"
    /\ Len(timeouts) = 3
    /\ timeouts[1].call.fn = "fix_leading_newlines"
    /\ timeouts[2].call.fn = "restore_previous_cursor"
    /\ timeouts[3].call.fn = "check_if_result_changed"
    /\ RESULTS \notin DOMAIN _on_search_finished

\* The last line of the text t, as the listener reads it.
LastLine(t) == substr(t, line(t, size(t) - 1))

\* The summaries the host writes in the model.
Summaries == {SummaryA, SummaryB, SummaryC, SummaryZ}

\* C12: the last headline of a results view the host has searched into is
\* the headline the host wrote, alone or with one summary behind it; once
\* the host has written the summary of the search, it is the host's
\* headline with that summary behind it once, and alone when the summary
\* starts with 0.
C12_SummaryAppendedOnce ==
    (job.id >= 1 /\ search_starts(buffer[RESULTS]) # {})
        => /\ \/ LastHeadline(buffer[RESULTS]) = HeadlinePlain
              \/ \E s \in Summaries :
                     LastHeadline(buffer[RESULTS])
                       = HeadlinePlain \o <<",", " ">> \o s
           /\ (job.state = "idle" /\ job.id \in finished)
                => LastHeadline(buffer[RESULTS])
                     = IF LastLine(buffer[RESULTS])[1] = "0" THEN HeadlinePlain
                       ELSE HeadlinePlain \o <<",", " ">> \o LastLine(buffer[RESULTS])

\* ------------------------------------- properties of the change counters

\* C13: handle_modified_events of the window is true only while the results
\* view is open and is the active view.
C13_HandledOnlyWhileActive ==
    Get(handle_modified_events, WINDOW, FALSE)
        => (RESULTS \in open /\ active = RESULTS)

\* The async thread makes the comparison of on_activated_async for the
\* results view, or goes on behind it.
Compares ==
    /\ apc.handler = "on_activated_async" /\ apc.view = RESULTS /\ apc.pc = 2
    /\ op'.args.thread = "async"
Places ==
    /\ apc.handler = "on_activated_async" /\ apc.view = RESULTS /\ apc.pc = 3
    /\ op'.args.thread = "async"

\* C14: on_activated_async of the results view goes on to place_view
\* exactly when the change count it read of the view differs from the count kept
\* for the window and a previous view is kept for the window; and when the
\* results view is active and has been written to while it was not, it goes
\* on.
C14_PlacedWhenChanged ==
    [][/\ Compares
            => /\ (apc' # Idle)
                    = (Get(change_counts_by_window, WINDOW, NotSet)
                         # Setting(apc.current_cc))
               /\ (op.args.unseen /\ active = RESULTS) => apc' # Idle
       /\ Places
            => (\E i \in DOMAIN cmds' : cmds'[i].cmd = "set_view_index")
                 = /\ Get(previous_views, WINDOW, None) # None
                   /\ Get(previous_views, WINDOW, None) \in open]_vars

\* ------------------------------------------- properties of the navigation

\* The matches of the last search of the text t, by their numbers in the
\* list of the regions of the view.
LastMatches(t) ==
    {i \in DOMAIN match_regions(t) :
        /\ search_starts(t) # {}
        /\ begin(match_regions(t)[i]) > MaxOf(search_starts(t))}

\* C15: fif_addon_next_match run with the caret in the last headline
\* selects the first match of the last search; run with a match of the last
\* search selected, it selects the match that follows it in the buffer, and
\* with the last match selected the first one again.
C15_NextMatchVisitsAll ==
    [][(op'.name = "fif_addon_next_match" /\ LastMatches(buffer[RESULTS]) # {})
        => /\ (/\ Len(sel[RESULTS]) = 1
               /\ sel[RESULTS][1].a = sel[RESULTS][1].b
               /\ sel[RESULTS][1].b >= MaxOf(search_starts(buffer[RESULTS]))
               /\ sel[RESULTS][1].b
                    <= line_end(buffer[RESULTS], MaxOf(search_starts(buffer[RESULTS]))))
                => sel'[RESULTS]
                     = <<match_regions(buffer[RESULTS])[MinOf(LastMatches(buffer[RESULTS]))]>>
           /\ \A k \in LastMatches(buffer[RESULTS]) :
                  sel[RESULTS] = <<match_regions(buffer[RESULTS])[k]>>
                      => sel'[RESULTS]
                           = <<match_regions(buffer[RESULTS])[
                                 IF k + 1 \in LastMatches(buffer[RESULTS]) THEN k + 1
                                 ELSE MinOf(LastMatches(buffer[RESULTS]))]>>]_vars

====
